---- MODULE Spec2Model ----
(***************************************************************************)
(* Secure-Chat: the Socket.IO session layer (src/src/server.ts), the       *)
(* message cipher (src/src/lib/crypto.ts) and the history route            *)
(* (src/src/app/api/rooms/[id]/messages/route.ts).                         *)
(*                                                                         *)
(* Program strings are sequences of one-character strings, so that         *)
(* includes(":"), split(":") and hex decoding are computed as the code     *)
(* computes them.                                                          *)
(***************************************************************************)
EXTENDS Integers, Sequences, FiniteSets, TLC

VARIABLES
    envKey,        \* process.env.MESSAGE_ENCRYPTION_KEY ("" when unset)
    shortTagsOk,   \* does this Node build accept a GCM tag shorter than 16 bytes
    now,           \* wall clock, in ticks
    status,        \* per socket: "idle" | "connected" | "rejected" | "closed"
    handshake,     \* per socket: the cookie header of its connection attempt
    user,          \* per socket: (socket as any).user
    connectError,  \* per socket: the Error handed to next() by the middleware
    rooms,         \* per socket: socket.rooms
    store,         \* the Message table, in creation order
    sends,         \* one entry per send_message handler run: suspended in
                   \* prisma.message.create ("pending"), "done" or "failed"
    inbox,         \* per socket: the receive_message events delivered to it
    errorLog,      \* number of console.error("Error saving message") lines
    cPc,           \* cipher calls: "start" | "ready" | "done"
    cKind,         \* cipher calls: how the string handed to decrypt was made
    cPlain,        \* cipher calls: the plaintext handed to encrypt
    cSerial,       \* cipher calls: what encrypt returned
    cInput,        \* cipher calls: the string handed to decrypt
    cOut,          \* cipher calls: what decrypt returned
    cKey,          \* cipher calls: the secret in force when encrypt ran
    cSerial2,      \* cipher calls: what a second encrypt of the same text returned
    cIvs,          \* cipher calls: what randomBytes gave each encrypt call
    pReq,          \* page middleware: the last request
    pRes,          \* page middleware: the response to it
    roomTable,     \* the Room table
    posts,         \* POST /api/rooms requests, each with its position in the handler
    hReq,          \* history route: the last GET request
    hResult        \* history route: the response to it

serverVars == <<now, status, handshake, user, connectError,
                rooms, store, sends, inbox, errorLog>>
cipherVars == <<cPc, cKind, cPlain, cSerial, cInput, cOut, cKey, cSerial2, cIvs>>
historyVars == <<hReq, hResult>>
webVars == <<pReq, pRes, roomTable, posts>>
vars == <<envKey, shortTagsOk, serverVars, cipherVars, historyVars, webVars>>

(***************************************************************************)
(* Bounds                                                                  *)
(***************************************************************************)
MaxLen == 2        \* longest plaintext handed to encrypt
MaxRawLen == 4     \* longest hand-written string handed to decrypt
NumIVs == 2        \* distinct values crypto.randomBytes(12) returns
MaxSends == 1      \* send_message events in one run
MaxOrderSends == 2 \* send_message events in one run of the ordering runs
MaxPosts == 2      \* POST /api/rooms requests in one run
MaxStored == 2     \* rows of the Message table when the history route is called

(***************************************************************************)
(* Cipher module: src/src/lib/crypto.ts                                    *)
(***************************************************************************)
NoKey == ""
Keys == {"k1", "k2"}
IvBytes == 12
TagBytes == 16
ValidTagLengths == {4, 8, 12, 13, 14, 15, 16}

Range(s) == {s[i] : i \in 1..Len(s)}

HexDigits == <<"0", "1", "2", "3", "4", "5", "6", "7",
               "8", "9", "a", "b", "c", "d", "e", "f">>

\* value of one hex character, -1 when it is not a hex digit
HexValue(c) ==
    IF \E i \in 1..16 : HexDigits[i] = c
    THEN (CHOOSE i \in 1..16 : HexDigits[i] = c) - 1
    ELSE CASE c = "A" -> 10 [] c = "B" -> 11 [] c = "C" -> 12
           [] c = "D" -> 13 [] c = "E" -> 14 [] c = "F" -> 15
           [] OTHER -> -1

RECURSIVE ToHex(_)
\* Buffer.toString("hex"): two lower-case digits per byte
ToHex(bytes) ==
    IF bytes = <<>> THEN <<>>
    ELSE <<HexDigits[(Head(bytes) \div 16) + 1], HexDigits[(Head(bytes) % 16) + 1]>>
         \o ToHex(Tail(bytes))

RECURSIVE FromHex(_)
\* Buffer.from(s, "hex"): decodes pairs, stops at the first pair that is not
\* two hex digits, ignores a trailing single character, accepts both cases
FromHex(s) ==
    IF Len(s) < 2 THEN <<>>
    ELSE IF HexValue(s[1]) < 0 \/ HexValue(s[2]) < 0 THEN <<>>
    ELSE <<HexValue(s[1]) * 16 + HexValue(s[2])>> \o FromHex(SubSeq(s, 3, Len(s)))

\* the characters plaintexts are built from, with their UTF-8 byte
Chars == {"a", ":"}
CharCode(c) == IF c = ":" THEN 58 ELSE 97

Utf8Encode(text) == [i \in 1..Len(text) |-> CharCode(text[i])]
\* bytes that are not a known character decode to a replacement character
Utf8Decode(bytes) ==
    [i \in 1..Len(bytes) |->
        IF bytes[i] = 58 THEN ":" ELSE IF bytes[i] = 97 THEN "a" ELSE "?"]

RECURSIVE Split(_)
\* String.prototype.split(":")
Split(s) ==
    IF \A i \in 1..Len(s) : s[i] # ":" THEN <<s>>
    ELSE LET p == CHOOSE i \in 1..Len(s) :
                      s[i] = ":" /\ \A j \in 1..(i - 1) : s[j] # ":"
         IN  <<SubSeq(s, 1, p - 1)>> \o Split(SubSeq(s, p + 1, Len(s)))

\* a key derivation that ignores the secret
DeriveKey_fixed(keyStr) == 1

\* crypto.scryptSync(keyStr, 'salt', 32): a fixed function of the secret
DeriveKey(keyStr) == IF keyStr = "k1" THEN 1 ELSE IF keyStr = "k2" THEN 2 ELSE 3

\* crypto.randomBytes(12): the n-th value it can return
RandomBytes(n) == [i \in 1..IvBytes |-> (n * 17 + i) % 256]

\* the try block of encrypt raised an error before it had a record
CipherThrew == <<>>

\* the outcome of the try block's first calls: a nonce, or an error for n = 0
Draw(n) == IF n = 0 THEN CipherThrew ELSE RandomBytes(n)

RECURSIVE SumBytes(_)
SumBytes(bytes) == IF bytes = <<>> THEN 0 ELSE Head(bytes) + SumBytes(Tail(bytes))

\* the counter-mode keystream byte for position i under (key, iv)
Keystream(k, iv, i) == (k * 101 + SumBytes(iv) * 7 + i * 13) % 256

CtrEncrypt(k, iv, pt) == [i \in 1..Len(pt) |-> (pt[i] + Keystream(k, iv, i)) % 256]
CtrDecrypt(k, iv, ct) == [i \in 1..Len(ct) |-> (ct[i] + 256 - Keystream(k, iv, i)) % 256]

\* cipher.getAuthTag(): the 16-byte GCM tag of (key, iv, ciphertext), an
\* ideal MAC: different (key, iv, ciphertext) give different tags
AuthTag(k, iv, ct) ==
    [i \in 1..TagBytes |->
        IF i = 1 THEN k
        ELSE IF i = 2 THEN SumBytes(iv) % 256
        ELSE IF i = 3 THEN Len(ct) % 256
        ELSE IF i - 3 <= Len(ct) THEN ct[i - 3] ELSE 0]

\* encrypt without the check for a missing key
encrypt_noKeyCheck(text, keyStr, iv) ==
    LET key == DeriveKey(keyStr)
        encrypted == CtrEncrypt(key, iv, Utf8Encode(text))
        authTag == AuthTag(key, iv, encrypted)
    IN  ToHex(iv) \o <<":">> \o ToHex(authTag) \o <<":">> \o ToHex(encrypted)

\* encrypt whose try block has no catch: the error reaches the caller
encrypt_noCatch(text, keyStr, iv) ==
    IF keyStr = NoKey THEN text
    ELSE IF iv = CipherThrew THEN <<"E", "r", "r", "o", "r">>
    ELSE LET key == DeriveKey(keyStr)
             encrypted == CtrEncrypt(key, iv, Utf8Encode(text))
             authTag == AuthTag(key, iv, encrypted)
         IN  ToHex(iv) \o <<":">> \o ToHex(authTag) \o <<":">> \o ToHex(encrypted)

\* encrypt with one nonce for every call
encrypt_staticIv(text, keyStr, iv) ==
    IF keyStr = NoKey THEN text
    ELSE IF iv = CipherThrew THEN text
    ELSE LET key == DeriveKey(keyStr)
             encrypted == CtrEncrypt(key, RandomBytes(1), Utf8Encode(text))
             authTag == AuthTag(key, RandomBytes(1), encrypted)
         IN  ToHex(RandomBytes(1)) \o <<":">> \o ToHex(authTag) \o <<":">>
                 \o ToHex(encrypted)

\* iv: what crypto.randomBytes(12) returned, or CipherThrew when a call of
\* the try block raised an error, which the catch block answers with the text
encrypt(text, keyStr, iv) ==
    IF keyStr = NoKey THEN text
    ELSE IF iv = CipherThrew THEN text
    ELSE LET key == DeriveKey(keyStr)
             encrypted == CtrEncrypt(key, iv, Utf8Encode(text))
             authTag == AuthTag(key, iv, encrypted)
         IN  ToHex(iv) \o <<":">> \o ToHex(authTag) \o <<":">> \o ToHex(encrypted)

\* the try block of decrypt without decipher.final(), which verifies the tag
Decipher_noFinal(encryptedText, keyStr, short) ==
    LET parts == Split(encryptedText)
        ivHex == parts[1]
        authTagHex == IF Len(parts) >= 2 THEN parts[2] ELSE <<>>
        contentHex == IF Len(parts) >= 3 THEN parts[3] ELSE <<>>
        iv == FromHex(ivHex)
        authTag == FromHex(authTagHex)
        key == DeriveKey(keyStr)
        content == FromHex(contentHex)
    IN  IF ivHex = <<>> \/ authTagHex = <<>> \/ contentHex = <<>>
        THEN [threw |-> FALSE, value |-> encryptedText]
        ELSE IF iv = <<>>
        THEN [threw |-> TRUE]
        ELSE IF Len(authTag) \notin ValidTagLengths
        THEN [threw |-> TRUE]
        ELSE IF Len(authTag) # TagBytes /\ ~short
        THEN [threw |-> TRUE]
        ELSE [threw |-> FALSE, value |-> Utf8Decode(CtrDecrypt(key, iv, content))]

\* the try block of decrypt: [threw |-> TRUE] or [threw |-> FALSE, value |-> ...]
Decipher(encryptedText, keyStr, short) ==
    LET parts == Split(encryptedText)
        ivHex == parts[1]
        authTagHex == IF Len(parts) >= 2 THEN parts[2] ELSE <<>>
        contentHex == IF Len(parts) >= 3 THEN parts[3] ELSE <<>>
        iv == FromHex(ivHex)
        authTag == FromHex(authTagHex)
        key == DeriveKey(keyStr)
        content == FromHex(contentHex)
    IN  IF ivHex = <<>> \/ authTagHex = <<>> \/ contentHex = <<>>
        THEN [threw |-> FALSE, value |-> encryptedText]
        ELSE IF iv = <<>>                                \* createDecipheriv
        THEN [threw |-> TRUE]
        ELSE IF Len(authTag) \notin ValidTagLengths      \* setAuthTag
        THEN [threw |-> TRUE]
        ELSE IF Len(authTag) # TagBytes /\ ~short        \* setAuthTag
        THEN [threw |-> TRUE]
        ELSE IF SubSeq(AuthTag(key, iv, content), 1, Len(authTag)) # authTag
        THEN [threw |-> TRUE]                            \* decipher.final
        ELSE [threw |-> FALSE, value |-> Utf8Decode(CtrDecrypt(key, iv, content))]

\* decrypt that answers a failure of the cipher with the empty string
decrypt_blankOnError(encryptedText, keyStr, short) ==
    IF keyStr = NoKey \/ ":" \notin Range(encryptedText) THEN encryptedText
    ELSE LET r == Decipher(encryptedText, keyStr, short)
         IN  IF r.threw THEN <<>> ELSE r.value

decrypt(encryptedText, keyStr, short) ==
    IF keyStr = NoKey \/ ":" \notin Range(encryptedText) THEN encryptedText
    ELSE LET r == Decipher(encryptedText, keyStr, short)
         IN  IF r.threw THEN encryptedText ELSE r.value


(***************************************************************************)
(* Calls of the cipher module: encrypt a text, optionally alter the        *)
(* returned record, decrypt.                                               *)
(***************************************************************************)
RECURSIVE SeqsUpTo(_, _)
SeqsUpTo(S, n) ==
    IF n = 0 THEN {<<>>}
    ELSE LET shorter == SeqsUpTo(S, n - 1)
         IN  shorter \cup {Append(s, c) : s \in {t \in shorter : Len(t) = n - 1}, c \in S}

Plaintexts == SeqsUpTo(Chars, MaxLen)
RawInputs == SeqsUpTo(Chars, MaxRawLen)
\* texts of messages that look like records: a record under k2 written out
\* as a message, and a text of three fields
ExtraTexts == {encrypt(<<"a">>, "k2", RandomBytes(1)), <<"a", ":", "a", ":", "a">>}
TamperChars == {"0", "1", "A", "B", "C", "D", "E", "F", "g", ":"}

CallEncrypt(text, n) ==
    /\ cPc = "start"
    /\ cPlain' = text
    /\ cSerial' = encrypt(text, envKey, Draw(n))
    /\ cInput' = cSerial'
    /\ cKind' = "fresh"
    /\ cPc' = "ready"
    /\ cKey' = envKey
    /\ cIvs' = <<Draw(n)>>
    /\ UNCHANGED <<envKey, shortTagsOk, serverVars, historyVars, webVars, cOut, cSerial2>>

\* encrypt is called again with the same text under the same secret
CallEncryptAgain(n) ==
    /\ cPc = "ready" /\ cKind = "fresh"
    /\ cSerial2' = encrypt(cPlain, envKey, Draw(n))
    /\ cIvs' = Append(cIvs, Draw(n))
    /\ cKind' = "again"
    /\ UNCHANGED <<envKey, shortTagsOk, serverVars, historyVars, webVars, cKey, cPc, cPlain,
                   cSerial, cInput, cOut>>

\* a stored record with one character replaced
Tamper(i, c) ==
    /\ cPc = "ready" /\ cKind = "fresh" /\ envKey # NoKey
    /\ Len(cPlain) <= MaxLen
    /\ i \in 1..Len(cSerial) /\ c # cSerial[i]
    /\ cInput' = [cSerial EXCEPT ![i] = c]
    /\ cKind' = "tampered"
    /\ UNCHANGED <<envKey, shortTagsOk, serverVars, historyVars, webVars, cKey, cSerial2, cIvs, cPc, cPlain, cSerial, cOut>>

\* a stored record with a fourth field added
Extend(suffix) ==
    /\ cPc = "ready" /\ cKind = "fresh" /\ envKey # NoKey
    /\ Len(cPlain) <= MaxLen
    /\ cInput' = cSerial \o <<":">> \o suffix
    /\ cKind' = "extended"
    /\ UNCHANGED <<envKey, shortTagsOk, serverVars, historyVars, webVars, cKey, cSerial2, cIvs, cPc, cPlain, cSerial, cOut>>

\* a string that encrypt did not produce
Raw(s) ==
    /\ cPc = "start"
    /\ cInput' = s
    /\ cKind' = "raw"
    /\ cPc' = "ready"
    /\ UNCHANGED <<envKey, shortTagsOk, serverVars, historyVars, webVars, cKey, cSerial2, cIvs, cPlain, cSerial, cOut>>

\* MESSAGE_ENCRYPTION_KEY is changed (or removed) while a record is stored:
\* getEncryptionKey reads the environment on every call
SetKey(k) ==
    /\ cPc = "ready" /\ cKind = "fresh"
    /\ k # envKey
    /\ envKey' = k
    /\ cKind' = "rekeyed"
    /\ UNCHANGED <<shortTagsOk, serverVars, historyVars, webVars, cKey, cSerial2, cIvs, cPc, cPlain, cSerial,
                   cInput, cOut>>

CallDecrypt ==
    /\ cPc = "ready"
    /\ cOut' = decrypt(cInput, envKey, shortTagsOk)
    /\ cPc' = "done"
    /\ UNCHANGED <<envKey, shortTagsOk, serverVars, historyVars, webVars, cKey, cSerial2, cIvs, cKind, cPlain, cSerial, cInput>>


(***************************************************************************)
(* Credential verifier: src/src/server.ts, lines 101-141 (lib/auth)        *)
(***************************************************************************)
JWT_SECRET == "fallback-secret-change-me"

NoUser == [userId |-> "none", username |-> "none"]
Identities == {[userId |-> "u1", username |-> "alice"],
               [userId |-> "u2", username |-> "bob"]}

NoToken == [userId |-> "none", username |-> "none", exp |-> 0, sig |-> "none"]
\* the tokens a client can present: signed by this server or by someone else,
\* expiring at different times
Tokens ==
    {[userId |-> "u1", username |-> "alice", exp |-> 1, sig |-> JWT_SECRET],
     [userId |-> "u2", username |-> "bob", exp |-> 9, sig |-> JWT_SECRET],
     [userId |-> "u2", username |-> "bob", exp |-> 9, sig |-> "other-secret"]}

\* verifyToken without the expiry check
verifyToken_ignoreExp(token, t) ==
    IF token.sig = JWT_SECRET
    THEN [userId |-> token.userId, username |-> token.username]
    ELSE NoUser

\* jwt.verify throws on a bad signature and on an expired token
verifyToken(token, t) ==
    IF token.sig = JWT_SECRET /\ t < token.exp
    THEN [userId |-> token.userId, username |-> token.username]
    ELSE NoUser

(***************************************************************************)
(* Socket.IO server: src/src/server.ts, lines 15-99                        *)
(***************************************************************************)
Sockets == {"s1", "s2"}
\* the rows of the Room table; Message.roomId references Room.id
DbRooms == {"A", "B"}
Texts == {<<"a">>, <<"a", ":">>}

\* socket.handshake.headers.cookie: absent, without a token cookie, or with one
Handshakes ==
    {[cookie |-> FALSE, hasToken |-> FALSE, token |-> NoToken],
     [cookie |-> TRUE, hasToken |-> FALSE, token |-> NoToken]}
    \cup {[cookie |-> TRUE, hasToken |-> TRUE, token |-> t] : t \in Tokens}

\* the result of the middleware: the error handed to next(), "" for none
AuthMiddleware(h, t) ==
    IF ~h.cookie
    THEN [err |-> "Authentication error: No cookies found", user |-> NoUser]
    ELSE IF ~h.hasToken
    THEN [err |-> "Authentication error: Token not found", user |-> NoUser]
    ELSE IF verifyToken(h.token, t) = NoUser
    THEN [err |-> "Authentication error: Invalid token", user |-> NoUser]
    ELSE [err |-> "", user |-> verifyToken(h.token, t)]

\* io.emit instead of io.to(roomId).emit: every connected socket
RoomSockets_all(roomId) == {s \in Sockets : rooms[s] # {}}

\* the sockets io.to(roomId) reaches
RoomSockets(roomId) == {s \in Sockets : roomId \in rooms[s]}

\* the presence map the documentation calls roomMembers (room -> connection
\* -> identity): the connection handler keeps none, the only membership state
\* of the server is socket.rooms
roomMembers == [r \in {} |-> [s \in {} |-> NoUser]]

\* the room_members events emitted to a socket: no handler emits one
RoomMembersEvents(s) == {}

\* the rooms of a closing socket that its teardown handler can enumerate: the
\* handler is registered for "disconnect", which fires after the socket has
\* left its rooms
DisconnectHandlerRooms(s) == rooms'[s]

\* the rows of the Room table that have a passwordHash
ProtectedRooms == {"A"}

\* the clock: before and after the expiry of the short-lived token
Clock == {0, 1}

Tick ==
    /\ now + 1 \in Clock
    /\ now' = now + 1
    /\ UNCHANGED <<envKey, shortTagsOk, cipherVars, historyVars, webVars, status, handshake, user,
                   connectError, rooms, store, sends, inbox, errorLog>>

\* a connection handler that puts every new socket in a default room
Connect_autoJoin(s, h) ==
    /\ status[s] = "idle"
    /\ handshake' = [handshake EXCEPT ![s] = h]
    /\ LET r == AuthMiddleware(h, now)
       IN  IF r.err # ""
           THEN /\ status' = [status EXCEPT ![s] = "rejected"]
                /\ connectError' = [connectError EXCEPT ![s] = r.err]
                /\ UNCHANGED <<user, rooms>>
           ELSE /\ status' = [status EXCEPT ![s] = "connected"]
                /\ user' = [user EXCEPT ![s] = r.user]
                /\ rooms' = [rooms EXCEPT ![s] = {s, "A"}]
                /\ UNCHANGED connectError
    /\ UNCHANGED <<envKey, shortTagsOk, cipherVars, historyVars, webVars, now, store, sends, inbox, errorLog>>

\* a connection attempt: io.use middleware, then the connection handler
Connect(s, h) ==
    /\ status[s] = "idle"
    /\ handshake' = [handshake EXCEPT ![s] = h]
    /\ LET r == AuthMiddleware(h, now)
       IN  IF r.err # ""
           THEN /\ status' = [status EXCEPT ![s] = "rejected"]
                /\ connectError' = [connectError EXCEPT ![s] = r.err]
                /\ UNCHANGED <<user, rooms>>
           ELSE /\ status' = [status EXCEPT ![s] = "connected"]
                /\ user' = [user EXCEPT ![s] = r.user]
                /\ rooms' = [rooms EXCEPT ![s] = {s}]
                /\ UNCHANGED connectError
    /\ UNCHANGED <<envKey, shortTagsOk, cipherVars, historyVars, webVars, now, store, sends, inbox, errorLog>>

\* join_room without the loop that leaves the previous rooms
JoinRoom_noLeave(s, roomId) ==
    /\ status[s] = "connected"
    /\ rooms' = [rooms EXCEPT ![s] = @ \cup {roomId}]
    /\ UNCHANGED <<envKey, shortTagsOk, cipherVars, historyVars, webVars, now, status, handshake, user,
                   connectError, store, sends, inbox, errorLog>>

\* socket.on("join_room")
JoinRoom(s, roomId) ==
    /\ status[s] = "connected"
    /\ rooms' = [rooms EXCEPT ![s] = (@ \cap {s}) \cup {roomId}]
    /\ UNCHANGED <<envKey, shortTagsOk, cipherVars, historyVars, webVars, now, status, handshake, user,
                   connectError, store, sends, inbox, errorLog>>

\* send_message taking the author from the payload, as the legacy
\* src/server.js does with data.username
SendMessage_payloadUser(s, text, roomId) ==
    /\ status[s] = "connected"
    /\ Len(sends) < MaxSends
    /\ \E claimed \in Identities :
          sends' = Append(sends, [sid |-> s, text |-> text, roomId |-> roomId,
                                  data |-> [text |-> text, userId |-> claimed.userId,
                                            roomId |-> roomId],
                                  username |-> claimed.username,
                                  state |-> "pending"])
    /\ UNCHANGED <<envKey, shortTagsOk, cipherVars, historyVars, webVars, now, status, handshake, user,
                   connectError, rooms, store, inbox, errorLog>>

\* a send_message handler that turns away a sender who is not in the room
SendMessageUpTo_membersOnly(s, text, roomId, cap) ==
    /\ status[s] = "connected"
    /\ roomId \in rooms[s]
    /\ Len(sends) < cap
    /\ sends' = Append(sends, [sid |-> s, text |-> text, roomId |-> roomId,
                               data |-> [text |-> text, userId |-> user[s].userId,
                                         roomId |-> roomId],
                               username |-> user[s].username,
                               state |-> "pending"])
    /\ UNCHANGED <<envKey, shortTagsOk, cipherVars, historyVars, webVars, now, status, handshake, user,
                   connectError, rooms, store, inbox, errorLog>>

\* socket.on("send_message"), up to the await of prisma.message.create. The
\* handler reads text and roomId from the payload and nothing else of it: an
\* identity the payload claims has no part in the step. cap: the number of
\* send_message events of the run.
SendMessageUpTo(s, text, roomId, cap) ==
    /\ status[s] = "connected"
    /\ Len(sends) < cap
    /\ sends' = Append(sends, [sid |-> s, text |-> text, roomId |-> roomId,
                               data |-> [text |-> text, userId |-> user[s].userId,
                                         roomId |-> roomId],
                               username |-> user[s].username,
                               state |-> "pending"])
    /\ UNCHANGED <<envKey, shortTagsOk, cipherVars, historyVars, webVars, now, status, handshake, user,
                   connectError, rooms, store, inbox, errorLog>>

SendMessage(s, text, roomId) == SendMessageUpTo(s, text, roomId, MaxSends)

\* a broadcast that always reaches the sender as well
CreateResolves_echo(i) ==
    /\ i \in 1..Len(sends) /\ sends[i].state = "pending"
    /\ sends[i].data.roomId \in DbRooms
    /\ LET savedMessage == [id |-> i, text |-> sends[i].data.text,
                            userId |-> sends[i].data.userId,
                            roomId |-> sends[i].data.roomId, createdAt |-> Len(store) + 1,
                            username |-> sends[i].username]
       IN  /\ store' = Append(store, savedMessage)
           /\ inbox' = [s \in Sockets |->
                           IF s \in RoomSockets(sends[i].roomId) \cup {sends[i].sid}
                           THEN inbox[s] \cup {savedMessage} ELSE inbox[s]]
    /\ sends' = [sends EXCEPT ![i].state = "done"]
    /\ UNCHANGED <<envKey, shortTagsOk, cipherVars, historyVars, webVars, now, status, handshake, user,
                   connectError, rooms, errorLog>>

\* a handler that calls create a second time after the first call resolved
CreateResolves_twice(i) ==
    /\ i \in 1..Len(sends) /\ sends[i].state = "pending"
    /\ sends[i].data.roomId \in DbRooms
    /\ LET savedMessage == [id |-> i, text |-> sends[i].data.text,
                            userId |-> sends[i].data.userId,
                            roomId |-> sends[i].data.roomId, createdAt |-> Len(store) + 1,
                            username |-> sends[i].username]
       IN  /\ store' = Append(Append(store, savedMessage),
                              [savedMessage EXCEPT !.createdAt = Len(store) + 2])
           /\ inbox' = [s \in Sockets |->
                           IF s \in RoomSockets(sends[i].roomId)
                           THEN inbox[s] \cup {savedMessage} ELSE inbox[s]]
    /\ sends' = [sends EXCEPT ![i].state = "done"]
    /\ UNCHANGED <<envKey, shortTagsOk, cipherVars, historyVars, webVars, now, status, handshake, user,
                   connectError, rooms, errorLog>>

\* prisma.message.create resolves: the record is stored, then broadcast
CreateResolves(i) ==
    /\ i \in 1..Len(sends) /\ sends[i].state = "pending"
    /\ sends[i].data.roomId \in DbRooms
    /\ LET savedMessage == [id |-> i, text |-> sends[i].data.text,
                            userId |-> sends[i].data.userId,
                            roomId |-> sends[i].data.roomId, createdAt |-> Len(store) + 1,
                            username |-> sends[i].username]
       IN  /\ store' = Append(store, savedMessage)
           /\ inbox' = [s \in Sockets |->
                           IF s \in RoomSockets(sends[i].roomId)
                           THEN inbox[s] \cup {savedMessage} ELSE inbox[s]]
    /\ sends' = [sends EXCEPT ![i].state = "done"]
    /\ UNCHANGED <<envKey, shortTagsOk, cipherVars, historyVars, webVars, now, status, handshake, user,
                   connectError, rooms, errorLog>>

\* a catch block that still emits what it has
CreateRejects_emit(i) ==
    /\ i \in 1..Len(sends) /\ sends[i].state = "pending"
    /\ sends' = [sends EXCEPT ![i].state = "failed"]
    /\ errorLog' = errorLog + 1
    /\ inbox' = [s \in Sockets |->
                    IF s \in RoomSockets(sends[i].roomId)
                    THEN inbox[s] \cup {[id |-> i, text |-> sends[i].data.text,
                                         userId |-> sends[i].data.userId,
                                         roomId |-> sends[i].data.roomId,
                                         createdAt |-> 0,
                                         username |-> sends[i].username]}
                    ELSE inbox[s]]
    /\ UNCHANGED <<envKey, shortTagsOk, cipherVars, historyVars, webVars, now, status, handshake, user,
                   connectError, rooms, store>>

\* prisma.message.create rejects: the catch block logs
CreateRejects(i) ==
    /\ i \in 1..Len(sends) /\ sends[i].state = "pending"
    /\ sends' = [sends EXCEPT ![i].state = "failed"]
    /\ errorLog' = errorLog + 1
    /\ UNCHANGED <<envKey, shortTagsOk, cipherVars, historyVars, webVars, now, status, handshake, user,
                   connectError, rooms, store, inbox>>

\* the transport closes: the socket leaves its rooms, then "disconnect" logs
Disconnect(s) ==
    /\ status[s] = "connected"
    /\ status' = [status EXCEPT ![s] = "closed"]
    /\ rooms' = [rooms EXCEPT ![s] = {}]
    /\ UNCHANGED <<envKey, shortTagsOk, cipherVars, historyVars, webVars, now, handshake, user,
                   connectError, store, sends, inbox, errorLog>>

(***************************************************************************)
(* History route: src/src/app/api/rooms/[id]/messages/route.ts             *)
(***************************************************************************)
NoRequest == [token |-> NoToken, roomId |-> "none"]
NoResponse == [status |-> 0, body |-> <<>>]

\* findMany without orderBy: the rows in the order the table holds them
FindMany_noOrderBy(roomId) == SelectSeq(store, LAMBDA m : m.roomId = roomId)

RECURSIVE SortByCreatedAt(_)
\* orderBy: { createdAt: "asc" }
SortByCreatedAt(rows) ==
    IF rows = {} THEN <<>>
    ELSE LET first == CHOOSE m \in rows : \A o \in rows : m.createdAt <= o.createdAt
         IN  <<first>> \o SortByCreatedAt(rows \ {first})

\* prisma.message.findMany({where: {roomId}, orderBy: {createdAt: "asc"}})
FindMany(roomId) ==
    SortByCreatedAt({store[i] : i \in {k \in 1..Len(store) : store[k].roomId = roomId}})

\* GET /api/rooms/[id]/messages; dbOk: does the findMany call resolve. The
\* route keeps nothing between requests, so a run makes one request.
GetMessages(token, roomId, dbOk) ==
    /\ hResult = NoResponse
    /\ hReq' = [token |-> token, roomId |-> roomId]
    /\ hResult' =
          IF verifyToken(token, now) = NoUser
          THEN [status |-> 401, body |-> <<>>]
          ELSE IF ~dbOk
          THEN [status |-> 500, body |-> <<>>]
          ELSE LET messages == FindMany(roomId)
               IN  [status |-> 200,
                    body |-> [j \in 1..Len(messages) |->
                                 [messages[j] EXCEPT
                                     !.text = decrypt(@, envKey, shortTagsOk)]]]
    /\ UNCHANGED <<envKey, shortTagsOk, serverVars, cipherVars, webVars>>

\* a record with the last character of its ciphertext field replaced
Corrupt(S) == [S EXCEPT ![Len(S)] = IF @ = "0" THEN "1" ELSE "0"]

\* texts the Message table can hold, with the secret they were encrypted
\* under and their plaintext when they are records of a non-empty text:
\* records under either secret, the record of the empty text, a corrupted
\* record, a text stored without encryption
HistorySamples ==
    {[text |-> encrypt(<<"a">>, k, RandomBytes(1)), key |-> k, plain |-> <<"a">>] :
        k \in Keys}
    \cup {[text |-> encrypt(<<>>, "k1", RandomBytes(1)), key |-> "none", plain |-> <<>>],
          [text |-> Corrupt(encrypt(<<"a">>, "k1", RandomBytes(1))),
           key |-> "none", plain |-> <<"a">>],
          [text |-> <<"a">>, key |-> "none", plain |-> <<"a">>]}

HistoryTexts == {m.text : m \in HistorySamples}

Perms(n) == {p \in [1..n -> 1..n] : \A i, j \in 1..n : i # j => p[i] # p[j]}

\* the Message tables of up to MaxStored rows: the table's own order need not
\* be the order of createdAt
StoredTables ==
    UNION {{[i \in 1..n |-> [id |-> i, text |-> t[i], userId |-> "u1",
                             roomId |-> r[i], createdAt |-> p[i],
                             username |-> "alice"]] :
               t \in [1..n -> HistoryTexts], r \in [1..n -> DbRooms], p \in Perms(n)} :
           n \in 0..MaxStored}

(***************************************************************************)
(* Specifications                                                          *)
(***************************************************************************)
ServerStart ==
    /\ now = 0
    /\ status = [s \in Sockets |-> "idle"]
    /\ handshake = [s \in Sockets |-> [cookie |-> FALSE, hasToken |-> FALSE,
                                        token |-> NoToken]]
    /\ user = [s \in Sockets |-> NoUser]
    /\ connectError = [s \in Sockets |-> ""]
    /\ rooms = [s \in Sockets |-> {}]
    /\ store = <<>>
    /\ sends = <<>>
    /\ inbox = [s \in Sockets |-> {}]
    /\ errorLog = 0

CipherStart ==
    /\ cPc = "start" /\ cKind = "none"
    /\ cPlain = <<>> /\ cSerial = <<>> /\ cInput = <<>> /\ cOut = <<>>
    /\ cKey = NoKey
    /\ cSerial2 = <<>> /\ cIvs = <<>>

HistoryStart ==
    /\ hReq = NoRequest /\ hResult = NoResponse

(***************************************************************************)
(* Page middleware: src/middleware.ts, lines 4-39                          *)
(***************************************************************************)
\* request.nextUrl.pathname, as its segments: "/" is the empty sequence
Paths ==
    {<<>>, <<"login">>, <<"register">>, <<"login", "x">>,
     <<"room", "A">>, <<"room", "B">>,
     <<"api", "auth", "login">>, <<"api", "auth", "register">>,
     <<"api", "rooms">>, <<"_next", "static", "x">>, <<"favicon.ico">>}

\* request.cookies: no token cookie, an empty one, or one with a token
PageCookies ==
    {[hasToken |-> FALSE, blank |-> FALSE, token |-> NoToken],
     [hasToken |-> TRUE, blank |-> TRUE, token |-> NoToken]}
    \cup {[hasToken |-> TRUE, blank |-> FALSE, token |-> t] : t \in Tokens}

NoPageRequest ==
    [path |-> <<>>, at |-> 0,
     cookie |-> [hasToken |-> FALSE, blank |-> FALSE, token |-> NoToken]]

\* config.matcher: every path except those that start with api,
\* _next/static, _next/image, favicon.ico, sitemap.xml or robots.txt
Matched(pathname) ==
    ~ /\ Len(pathname) >= 1
      /\ \/ pathname[1] = "api"
         \/ pathname[1] \in {"favicon.ico", "sitemap.xml", "robots.txt"}
         \/ /\ pathname[1] = "_next" /\ Len(pathname) >= 2
            /\ pathname[2] \in {"static", "image"}

isAuthPage(pathname) == pathname = <<"login">> \/ pathname = <<"register">>
isApiAuth(pathname) ==
    Len(pathname) >= 2 /\ pathname[1] = "api" /\ pathname[2] = "auth"

\* the response of the middleware; the token is looked at for presence only
middleware(pathname, cookie) ==
    IF isApiAuth(pathname) THEN "next"
    ELSE IF ~cookie.hasToken \/ cookie.blank
    THEN IF isAuthPage(pathname) THEN "next" ELSE "redirect:/login"
    ELSE IF isAuthPage(pathname) THEN "redirect:/"
    ELSE "next"

\* one request: the middleware runs when the matcher selects the path
PageRequest(pathname, cookie) ==
    /\ pReq' = [path |-> pathname, at |-> now, cookie |-> cookie]
    /\ pRes' = IF Matched(pathname) THEN middleware(pathname, cookie)
               ELSE "unmatched"
    /\ UNCHANGED <<envKey, shortTagsOk, serverVars, cipherVars, historyVars,
                   roomTable, posts>>

(***************************************************************************)
(* Rooms route, POST: src/src/lib/crypto.ts, lines 103-142                 *)
(***************************************************************************)
\* String.prototype.trim on a name of spaces and letters
RECURSIVE Trim(_)
Trim(name) ==
    IF name = <<>> THEN name
    ELSE IF Head(name) = " " THEN Trim(Tail(name))
    ELSE IF name[Len(name)] = " " THEN Trim(SubSeq(name, 1, Len(name) - 1))
    ELSE name

\* the names a client can put in the body
PostNames == {<<"a">>, <<" ", "a">>, <<"a", " ">>, <<"b">>, <<" ">>}

\* prisma.room.findUnique({ where: { name } })
FindRoom(name) == {k \in 1..Len(roomTable) : roomTable[k].name = name}

SetPost(i, pc, st, err) ==
    posts' = [posts EXCEPT ![i] = [@ EXCEPT !.pc = pc, !.status = st, !.err = err]]

\* the handler up to its first store call: 401, 400, or findUnique is issued
PostRoom(token, name) ==
    /\ Len(posts) < MaxPosts
    /\ LET payload == verifyToken(token, now)
           post == [name |-> name, userId |-> payload.userId, err |-> "none"]
       IN  posts' = Append(posts,
              IF payload = NoUser
              THEN post @@ [pc |-> "done", status |-> 401]
              ELSE IF Trim(name) = <<>>
              THEN post @@ [pc |-> "done", status |-> 400]
              ELSE post @@ [pc |-> "find", status |-> 0])
    /\ UNCHANGED <<envKey, shortTagsOk, serverVars, cipherVars, historyVars,
                   pReq, pRes, roomTable>>

\* findUnique resolves: 409 when it found a row, else create is issued
FindUniqueResolves(i) ==
    /\ i \in 1..Len(posts) /\ posts[i].pc = "find"
    /\ IF FindRoom(Trim(posts[i].name)) # {}
       THEN SetPost(i, "done", 409, "none")
       ELSE SetPost(i, "create", 0, "none")
    /\ UNCHANGED <<envKey, shortTagsOk, serverVars, cipherVars, historyVars,
                   pReq, pRes, roomTable>>

\* create resolves with the new row (201), or rejects because Room.name is
\* unique and the name is taken by now: the catch block answers 500
RoomCreateResolves(i) ==
    /\ i \in 1..Len(posts) /\ posts[i].pc = "create"
    /\ IF FindRoom(Trim(posts[i].name)) # {}
       THEN /\ SetPost(i, "done", 500, "P2002")
            /\ UNCHANGED roomTable
       ELSE /\ roomTable' = Append(roomTable, [name |-> Trim(posts[i].name),
                                               createdBy |-> posts[i].userId])
            /\ SetPost(i, "done", 201, "none")
    /\ UNCHANGED <<envKey, shortTagsOk, serverVars, cipherVars, historyVars,
                   pReq, pRes>>

\* a store call rejects because the database cannot be reached
RoomStoreRejects(i) ==
    /\ i \in 1..Len(posts) /\ posts[i].pc \in {"find", "create"}
    /\ SetPost(i, "done", 500, "db")
    /\ UNCHANGED <<envKey, shortTagsOk, serverVars, cipherVars, historyVars,
                   pReq, pRes, roomTable>>

WebStart ==
    /\ pReq = NoPageRequest /\ pRes = "none"
    /\ roomTable = <<>>
    /\ posts = <<>>

\* the server: no action of it reads shortTagsOk
Init ==
    /\ envKey \in {NoKey, "k1"}
    /\ shortTagsOk = FALSE
    /\ ServerStart
    /\ CipherStart
    /\ HistoryStart
    /\ WebStart

\* the cipher module called on its own
CipherInit ==
    /\ envKey \in Keys \cup {NoKey}
    /\ shortTagsOk \in BOOLEAN
    /\ ServerStart
    /\ CipherStart
    /\ HistoryStart
    /\ WebStart

\* the rooms a client can name: rows of the Room table and a socket id
RoomNames == DbRooms \cup {"s1"}

Next ==
    \/ Tick
    \/ \E s \in Sockets, h \in Handshakes : Connect(s, h)
    \/ \E s \in Sockets, r \in RoomNames : JoinRoom(s, r)
    \/ \E s \in Sockets, t \in Texts, r \in RoomNames : SendMessage(s, t, r)
    \/ \E i \in 1..MaxSends : CreateResolves(i)
    \/ \E i \in 1..MaxSends : CreateRejects(i)
    \/ \E s \in Sockets : Disconnect(s)

Spec == Init /\ [][Next]_vars

CipherNext ==
    \/ \E text \in Plaintexts \cup ExtraTexts, n \in 0..NumIVs : CallEncrypt(text, n)
    \/ \E n \in 0..NumIVs : CallEncryptAgain(n)
    \/ \E i \in 1..(2 * (IvBytes + TagBytes + MaxLen) + 2), c \in TamperChars : Tamper(i, c)
    \/ \E suffix \in Plaintexts : Extend(suffix)
    \/ \E s \in RawInputs : Raw(s)
    \/ \E k \in Keys \cup {NoKey} : SetKey(k)
    \/ CallDecrypt

CipherSpec == CipherInit /\ [][CipherNext]_vars

\* the server with several send_message events in flight: a secret is
\* configured, handshakes carry a valid long-lived token, one text, rooms of
\* the Room table
OrderInit ==
    /\ envKey = "k1"
    /\ shortTagsOk = FALSE
    /\ ServerStart
    /\ CipherStart
    /\ HistoryStart
    /\ WebStart

OrderHandshakes ==
    {[cookie |-> TRUE, hasToken |-> TRUE, token |-> t] :
        t \in {k \in Tokens : k.sig = JWT_SECRET /\ k.exp > 1}}

OrderNext ==
    \/ \E s \in Sockets, h \in OrderHandshakes : Connect(s, h)
    \/ \E s \in Sockets, r \in DbRooms : JoinRoom(s, r)
    \/ \E s \in Sockets, r \in DbRooms : SendMessageUpTo(s, <<"a">>, r, MaxOrderSends)
    \/ \E i \in 1..MaxOrderSends : CreateResolves(i)
    \/ \E i \in 1..MaxOrderSends : CreateRejects(i)
    \/ \E s \in Sockets : Disconnect(s)

OrderSpec == OrderInit /\ [][OrderNext]_vars

\* the same server when every create call that was made settles: it resolves
\* or it rejects
LiveNext ==
    \/ \E s \in Sockets, h \in OrderHandshakes : Connect(s, h)
    \/ \E s \in Sockets, r \in DbRooms : JoinRoom(s, r)
    \/ \E s \in Sockets, r \in DbRooms : SendMessage(s, <<"a">>, r)
    \/ \E i \in 1..MaxSends : CreateResolves(i)
    \/ \E i \in 1..MaxSends : CreateRejects(i)
    \/ \E s \in Sockets : Disconnect(s)

LiveSpec ==
    /\ OrderInit /\ [][LiveNext]_vars
    /\ \A i \in 1..MaxSends : WF_vars(CreateResolves(i) \/ CreateRejects(i))

\* the history route called on a Message table that already has rows
HistoryInit ==
    /\ envKey \in Keys \cup {NoKey}
    /\ shortTagsOk \in BOOLEAN
    /\ now = 0
    /\ status = [s \in Sockets |-> "idle"]
    /\ handshake = [s \in Sockets |-> [cookie |-> FALSE, hasToken |-> FALSE,
                                        token |-> NoToken]]
    /\ user = [s \in Sockets |-> NoUser]
    /\ connectError = [s \in Sockets |-> ""]
    /\ rooms = [s \in Sockets |-> {}]
    /\ store \in StoredTables
    /\ sends = <<>>
    /\ inbox = [s \in Sockets |-> {}]
    /\ errorLog = 0
    /\ CipherStart
    /\ HistoryStart
    /\ WebStart

HistoryNext ==
    \E token \in {t \in Tokens : t.userId = "u2"} \cup {NoToken},
       roomId \in DbRooms, dbOk \in BOOLEAN :
        GetMessages(token, roomId, dbOk)

HistorySpec == HistoryInit /\ [][HistoryNext]_vars

\* the page middleware on its own
PageInit ==
    /\ envKey = NoKey
    /\ shortTagsOk = FALSE
    /\ ServerStart
    /\ CipherStart
    /\ HistoryStart
    /\ WebStart

PageNext ==
    \/ Tick
    \/ \E pathname \in Paths, cookie \in PageCookies : PageRequest(pathname, cookie)

PageSpec == PageInit /\ [][PageNext]_vars

\* the rooms route on its own, with requests in flight at the same time
RoomsNext ==
    \/ \E token \in {t \in Tokens : t.userId = "u2" /\ t.sig = JWT_SECRET}
                       \cup {NoToken},
          name \in PostNames : PostRoom(token, name)
    \/ \E i \in 1..MaxPosts :
          \/ FindUniqueResolves(i)
          \/ RoomCreateResolves(i)
          \/ RoomStoreRejects(i)

RoomsSpec == PageInit /\ [][RoomsNext]_vars

(***************************************************************************)
(* Properties of the session layer, checked under Spec                     *)
(***************************************************************************)
\* a credential that is missing, expired or not signed by this server
BadCredential(h, t) ==
    \/ ~h.cookie
    \/ ~h.hasToken
    \/ h.token.sig # JWT_SECRET
    \/ h.token.exp <= t

SendsOf(s) == {i \in 1..Len(sends) : sends[i].sid = s}
Untouched(s) ==
    /\ user[s] = NoUser /\ rooms[s] = {} /\ inbox[s] = {} /\ SendsOf(s) = {}

\* C1: a connection attempt whose handshake has no cookie header, no token
\* cookie or a token the verifier rejects is rejected in the step that makes
\* it, that step changes no identity, membership, message or delivery, and no
\* handler ever acts for the rejected socket.
C1_AuthGate ==
    [][\A s \in Sockets :
          /\ (status[s] = "idle" /\ status'[s] # "idle"
                /\ BadCredential(handshake'[s], now))
               => (/\ status'[s] = "rejected"
                   /\ connectError'[s] # ""
                   /\ UNCHANGED <<user, rooms, store, sends, inbox, errorLog>>)
          /\ status[s] = "rejected" => (status'[s] = "rejected" /\ Untouched(s)')
      ]_vars

C1_Witness ==
    \E s, t \in Sockets :
        /\ status[s] = "rejected" /\ handshake[s].hasToken
        /\ handshake[s].token.sig = JWT_SECRET
        /\ status[t] = "connected" /\ inbox[t] # {}

\* C2: with an encryption key configured, the text of every stored record is
\* the output of encrypt on the text of the send_message event it came from.
C2_CiphertextOnly ==
    envKey # NoKey =>
        \A i \in 1..Len(store) :
            \E n \in 1..NumIVs :
                store[i].text = encrypt(sends[store[i].id].text, envKey, RandomBytes(n))

\* C3: a receive_message event for a message persisted under room A reaches a
\* socket only if the socket is in A when the broadcast is made, and A is then
\* the only room the socket is in besides its own.
C3_Isolation ==
    [][\A s \in Sockets : \A m \in inbox'[s] \ inbox[s] :
          /\ m.roomId \in rooms[s]
          /\ rooms[s] \ {s} = {m.roomId}
          /\ \E i \in 1..Len(store') : store'[i].id = m.id /\ store'[i].roomId = m.roomId
      ]_vars

C3_Witness ==
    \E s, t \in Sockets :
        /\ rooms[s] = {s, "A"} /\ rooms[t] = {t, "B"}
        /\ \E m \in inbox[s] : m.roomId = "A"
        /\ inbox[t] = {}

\* C4: a connected socket is in at most one room besides its own; a step that
\* adds it to room B leaves it in no other room; and a message is delivered to
\* it only for the room it is in at that moment.
C4_RoomTransition ==
    [][\A s \in Sockets :
          /\ Cardinality(rooms'[s] \ {s}) <= 1
          /\ \A B \in (rooms'[s] \ rooms[s]) \ {s} : rooms'[s] \ {s} = {B}
          /\ \A m \in inbox'[s] \ inbox[s] : rooms[s] \ {s} = {m.roomId}
      ]_vars

\* the sender moved to B while its message to A was being stored: the member
\* of A received it, the sender did not
C4_Witness ==
    \E s, t \in Sockets : \E m \in inbox[t] :
        /\ s # t /\ m.roomId = "A" /\ sends[m.id].sid = s
        /\ rooms[s] = {s, "B"} /\ rooms[t] = {t, "A"}
        /\ m \notin inbox[s]

\* C5: a send_message whose create call failed is never stored, never
\* broadcast and never tried again, the step that fails it delivers no event
\* to anyone and changes no membership.
C5_PersistenceFailure ==
    [][\A i \in 1..Len(sends) :
          /\ sends[i].state = "failed" => sends'[i].state = "failed"
          /\ sends'[i].state = "failed" =>
                /\ \A k \in 1..Len(store') : store'[k].id # i
                /\ \A s \in Sockets : \A m \in inbox'[s] : m.id # i
          /\ (sends[i].state = "pending" /\ sends'[i].state = "failed") =>
                UNCHANGED <<rooms, inbox, store, status, user>>
      ]_vars

C5_Witness ==
    \E i \in 1..Len(sends) : \E s \in Sockets :
        /\ sends[i].state = "failed"
        /\ sends[i].roomId \in DbRooms
        /\ sends[i].roomId \in rooms[s]
        /\ errorLog > 0

\* C6: for every send_message the text handed to the create call is the
\* output of encrypt on the event's text, and every broadcast carries the
\* stored record's id, createdAt and userId with the event's plaintext.
C6_SendPipelineOrder ==
    /\ \A i \in 1..Len(sends) :
          \E n \in 1..NumIVs :
              sends[i].data.text = encrypt(sends[i].text, envKey, RandomBytes(n))
    /\ \A s \in Sockets : \A m \in inbox[s] :
          /\ sends[m.id].state = "done"
          /\ m.text = sends[m.id].text
          /\ \E k \in 1..Len(store) :
                /\ store[k].id = m.id /\ store[k].createdAt = m.createdAt
                /\ store[k].userId = m.userId

\* C10: with no encryption secret configured encrypt and decrypt return
\* their argument, and a send_message whose create call resolves is stored and
\* broadcast with its text.
C10_FailOpen ==
    envKey = NoKey =>
        /\ \A P \in Plaintexts \cup Texts : \A n \in 1..NumIVs :
              /\ encrypt(P, envKey, RandomBytes(n)) = P
              /\ decrypt(P, envKey, shortTagsOk) = P
        /\ \A i \in 1..Len(sends) :
              sends[i].state = "done" =>
                  \E k \in 1..Len(store) :
                      /\ store[k].id = i
                      /\ decrypt(store[k].text, envKey, shortTagsOk) = sends[i].text
        /\ \A s \in Sockets : \A m \in inbox[s] : m.text = sends[m.id].text

C10_Witness ==
    /\ envKey = NoKey
    /\ \E s \in Sockets : \E m \in inbox[s] :
          sends[m.id].state = "done" /\ m.text = <<"a", ":">>

\* the identity the verifier read from the token of a socket's handshake
HandshakeIdentity(s) ==
    [userId |-> handshake[s].token.userId, username |-> handshake[s].token.username]

\* C12: the identity of a socket that passed the handshake is the one its
\* handshake token carried, from then on and whatever the clock says; the
\* userId handed to the create call, stored and broadcast for a send_message
\* is the userId of the sending socket's handshake token.
C12_IdentityBinding ==
    /\ \A s \in Sockets :
          status[s] \in {"connected", "closed"} =>
              user[s] = HandshakeIdentity(s) /\ user[s] \in Identities
    /\ \A i \in 1..Len(sends) :
          sends[i].data.userId = HandshakeIdentity(sends[i].sid).userId
    /\ \A k \in 1..Len(store) :
          store[k].userId = HandshakeIdentity(sends[store[k].id].sid).userId
    /\ \A s \in Sockets : \A m \in inbox[s] :
          m.userId = HandshakeIdentity(sends[m.id].sid).userId

\* the sender's token has expired, its socket is still connected, and its
\* message was delivered to a socket of the other user under the sender's id
C12_Witness ==
    \E s, t \in Sockets : \E m \in inbox[t] :
        /\ s # t /\ sends[m.id].sid = s
        /\ status[s] = "connected" /\ handshake[s].token.exp <= now
        /\ m.userId = "u1" /\ user[t].userId = "u2"

\* C13: while connections of a userId are joined to a room, the room_members
\* list held by every connection of the room has exactly one entry for that
\* userId and one entry per distinct userId of the room.
C13_PresenceDedup ==
    \A r \in DbRooms : \A u \in {i.userId : i \in Identities} :
        (\E s \in RoomSockets(r) : user[s].userId = u) =>
            \A t \in RoomSockets(r) :
                \E ev \in RoomMembersEvents(t) :
                    /\ ev.roomId = r
                    /\ Cardinality({j \in 1..Len(ev.members) :
                                       ev.members[j].userId = u}) = 1
                    /\ Len(ev.members) =
                          Cardinality({user[x].userId : x \in RoomSockets(r)})

\* C14: the presence map has no room with an empty connection map, and the
\* step in which the last connection of a room leaves it (by joining another
\* room or by closing) deletes the room's entry from the map.
C14_PresenceGC ==
    [][\A r \in DbRooms :
          /\ \A key \in DOMAIN roomMembers' : DOMAIN roomMembers'[key] # {}
          /\ (RoomSockets(r) # {} /\ RoomSockets(r)' = {}) =>
                (r \in DOMAIN roomMembers /\ r \notin DOMAIN roomMembers')
      ]_vars

\* C15: the presence map holds an entry (room, connection) only for a live
\* connection joined to the room, and the teardown handler of a closing
\* connection runs while the connection's rooms can still be enumerated.
C15_PresenceLifetime ==
    [][\A s \in Sockets :
          /\ \A r \in DOMAIN roomMembers' :
                s \in DOMAIN roomMembers'[r] =>
                    (status'[s] = "connected" /\ r \in rooms'[s])
          /\ (status[s] = "connected" /\ status'[s] = "closed") =>
                DisconnectHandlerRooms(s) = rooms[s]
      ]_vars

\* C17: while no password has been verified, no socket is in a room that has
\* a passwordHash and none is delivered a message of such a room.
C17_PasswordGate ==
    \A s \in Sockets : \A r \in ProtectedRooms :
        /\ r \notin rooms[s]
        /\ \A m \in inbox[s] : m.roomId # r

\* C18: any two rejected connection attempts got the same error.
C18_GenericRejection ==
    \A s, t \in Sockets :
        (status[s] = "rejected" /\ status[t] = "rejected") =>
            connectError[s] = connectError[t]

\* C19: the step that accepts a connection leaves the socket in its own room
\* only, with nothing delivered and no presence entry; while a socket is in
\* its own room only no step delivers it an event, and a step that puts it in
\* another room changes no other socket.
C19_NoMembershipFromAuth ==
    [][\A s \in Sockets :
          /\ (status[s] = "idle" /\ status'[s] = "connected") =>
                /\ rooms'[s] = {s} /\ inbox'[s] = {}
                /\ RoomMembersEvents(s)' = {}
                /\ \A r \in DOMAIN roomMembers' : s \notin DOMAIN roomMembers'[r]
          /\ (status[s] = "connected" /\ rooms[s] = {s}) =>
                /\ inbox'[s] = inbox[s]
                /\ RoomMembersEvents(s)' = RoomMembersEvents(s)
                /\ (status'[s] = "connected" /\ rooms'[s] # {s}) =>
                      \A t \in Sockets \ {s} :
                          rooms'[t] = rooms[t] /\ status'[t] = status[t]
      ]_vars

\* s2 is connected and has joined nothing; the other socket sent a message to
\* its room and received it
C19_Witness ==
    /\ status["s2"] = "connected" /\ rooms["s2"] = {"s2"}
    /\ inbox["s2"] = {} /\ SendsOf("s2") = {}
    /\ rooms["s1"] = {"s1", "A"} /\ inbox["s1"] # {}

\* C20: the step in which a socket joins a room delivers, to every socket
\* then in the room, a room_members event whose list is the distinct
\* identities of the sockets in the room after the join.
C20_MembershipBroadcast ==
    [][\A s \in Sockets : \A r \in DbRooms :
          (status[s] = "connected" /\ r \notin rooms[s] /\ r \in rooms'[s]) =>
              \A t \in RoomSockets(r)' :
                  \E ev \in RoomMembersEvents(t)' \ RoomMembersEvents(t) :
                      /\ ev.roomId = r
                      /\ {ev.members[j] : j \in 1..Len(ev.members)}
                            = {user[x] : x \in RoomSockets(r)'}
                      /\ Len(ev.members)
                            = Cardinality({user[x] : x \in RoomSockets(r)'})
      ]_vars

\* C21: when one socket emits two send_message events for the same room, the
\* first is stored before the second and delivered before it.
C21_PerConnectionOrder ==
    \A i, j \in 1..Len(sends) :
        (i < j /\ sends[i].sid = sends[j].sid /\ sends[i].roomId = sends[j].roomId
           /\ \E k \in 1..Len(store) : store[k].id = j)
          => \E k, l \in 1..Len(store) :
                 k < l /\ store[k].id = i /\ store[l].id = j

\* C23: the step in which the create call of a send_message resolves
\* delivers the message to the sockets that are in its room in that step and
\* to no other socket, wherever they were when the event was emitted.
C23_RecipientsAtBroadcast ==
    [][\A i \in 1..Len(sends) :
          (sends[i].state = "pending" /\ sends'[i].state = "done") =>
              \A s \in Sockets :
                  (\E m \in inbox'[s] \ inbox[s] : m.id = i)
                      <=> sends[i].roomId \in rooms[s]
      ]_vars

\* the sender closed while its create call was suspended: the socket in the
\* room has the message, the sender has not
C23_Witness ==
    \E s, t \in Sockets : \E m \in inbox[t] :
        /\ s # t /\ sends[m.id].sid = s
        /\ status[s] = "closed" /\ m \notin inbox[s]
        /\ rooms[t] = {t, m.roomId}

\* C24: a send_message whose create call has settled stays as it is; a step
\* stores or delivers only by resolving one pending create call, which stores
\* one record; a rejected call logs once and stores and delivers nothing; and
\* every send_message ends resolved or rejected.
C24_OneOutcome ==
    /\ [][/\ \A i \in 1..Len(sends) :
               /\ sends[i].state \in {"done", "failed"} => sends'[i] = sends[i]
               /\ (sends[i].state = "pending" /\ sends'[i].state = "done") =>
                     /\ Len(store') = Len(store) + 1
                     /\ store'[Len(store')].id = i
                     /\ errorLog' = errorLog
               /\ (sends[i].state = "pending" /\ sends'[i].state = "failed") =>
                     /\ store' = store /\ inbox' = inbox
                     /\ errorLog' = errorLog + 1
          /\ (store' # store \/ inbox' # inbox) =>
               \E i \in 1..Len(sends) :
                   sends[i].state = "pending" /\ sends'[i].state = "done"
         ]_vars
    /\ \A i \in 1..MaxSends :
          [](Len(sends) >= i =>
                <>(Len(sends) >= i /\ sends[i].state \in {"done", "failed"}))

\* a send_message that ended resolved: one record, delivered, nothing logged
C24_Witness ==
    \E i \in 1..Len(sends) : \E s \in Sockets :
        /\ sends[i].state = "done" /\ errorLog = 0
        /\ Cardinality({k \in 1..Len(store) : store[k].id = i}) = 1
        /\ Cardinality({m \in inbox[s] : m.id = i}) = 1

\* C27: a connected socket can emit send_message for any room of the Room
\* table, whether it is in that room or not; the record is stored under the
\* room of the payload and delivered as a message of that room.
C27_SendWithoutMembership ==
    /\ \A s \in Sockets : \A r \in DbRooms :
          (status[s] = "connected" /\ Len(sends) < MaxOrderSends) =>
              ENABLED SendMessageUpTo(s, <<"a">>, r, MaxOrderSends)
    /\ \A k \in 1..Len(store) : store[k].roomId = sends[store[k].id].roomId
    /\ \A s \in Sockets : \A m \in inbox[s] : m.roomId = sends[m.id].roomId

\* s2 has joined no room; its message to A is stored under A and delivered to
\* s1, which is in A, and not to s2
C27_Witness ==
    /\ status["s2"] = "connected" /\ rooms["s2"] = {"s2"} /\ inbox["s2"] = {}
    /\ rooms["s1"] = {"s1", "A"}
    /\ \E m \in inbox["s1"] :
          /\ sends[m.id].sid = "s2" /\ m.roomId = "A"
          /\ \E k \in 1..Len(store) : store[k].id = m.id /\ store[k].roomId = "A"

\* C28: once no persistence call is pending, every socket joined to a room
\* has received a room_members event, and the last one it received lists
\* exactly the distinct identities of the sockets joined to the room now.
C28_PresenceView ==
    (\A i \in 1..Len(sends) : sends[i].state # "pending") =>
        \A r \in DbRooms : \A s \in RoomSockets(r) :
            \E last \in RoomMembersEvents(s) :
                /\ \A ev \in RoomMembersEvents(s) : ev.at <= last.at
                /\ last.roomId = r
                /\ {last.members[j] : j \in 1..Len(last.members)}
                      = {user[x] : x \in RoomSockets(r)}
                /\ Len(last.members) = Cardinality({user[x] : x \in RoomSockets(r)})

(***************************************************************************)
(* Properties of the cipher module, checked under CipherSpec               *)
(***************************************************************************)
\* the positions of the tag field and of the ciphertext field in a record
TagField == (2 * IvBytes + 2)..(2 * IvBytes + 1 + 2 * TagBytes)
CtField(S) == (2 * IvBytes + 2 * TagBytes + 3)..Len(S)
\* where the altered record differs from the one encrypt returned
TamperPos == CHOOSE i \in 1..Len(cSerial) : cInput[i] # cSerial[i]
TamperedInTagOrCt ==
    /\ cPc = "done" /\ cKind = "tampered" /\ envKey # NoKey
    /\ TamperPos \in TagField \cup CtField(cSerial)

\* exactly two colons, separating three non-empty fields
ThreeFields(S) ==
    /\ Cardinality({i \in 1..Len(S) : S[i] = ":"}) = 2
    /\ S[1] # ":" /\ S[Len(S)] # ":"
    /\ \A i \in 1..(Len(S) - 1) : ~(S[i] = ":" /\ S[i + 1] = ":")

\* C7: with a key configured, decrypt of what encrypt returned for P is P,
\* for every P, the empty string included.
C7_RoundTrip ==
    (cPc = "done" /\ cKind = "fresh" /\ envKey # NoKey) => cOut = cPlain

C9_FormatCheck ==
    (cPc = "done" /\ envKey # NoKey /\ cInput # <<>> /\ ~ThreeFields(cInput))
        => cOut = cInput

\* C11: a record that encrypt produced under one secret, handed to decrypt
\* after the secret was changed to another one, comes back unchanged: the
\* same string with its two colons, not the plaintext.
C11_WrongKey ==
    (cPc = "done" /\ cKind = "rekeyed" /\ cKey # NoKey /\ envKey # NoKey
       /\ cIvs[1] # CipherThrew) =>
        /\ cOut = cSerial
        /\ cOut # cPlain
        /\ Cardinality({i \in 1..Len(cOut) : cOut[i] = ":"}) = 2
        /\ \A P \in Plaintexts : cOut # P

C11_Witness ==
    /\ cPc = "done" /\ cKind = "rekeyed"
    /\ cKey = "k1" /\ envKey = "k2" /\ cIvs[1] # CipherThrew
    /\ cPlain = <<"a", ":">>
    /\ cOut = cSerial

(***************************************************************************)
(* Properties of the history route, checked under HistorySpec              *)
(***************************************************************************)
\* what the reader of a stored text is to get: the plaintext when the text is
\* the record of a non-empty plaintext under the secret in force, else the text
ExpectedText(stored) ==
    IF \E m \in HistorySamples : m.text = stored /\ m.key = envKey
    THEN (CHOOSE m \in HistorySamples : m.text = stored /\ m.key = envKey).plain
    ELSE stored

\* C16: a successful history read of a room returns one entry per stored row
\* of that room and no other, in ascending createdAt order; the text of an
\* entry is the plaintext when the row decrypts under the secret in force and
\* the stored text otherwise, whatever the other rows hold.
C16_HistoryRead ==
    hResult.status = 200 =>
        LET rows == {i \in 1..Len(store) : store[i].roomId = hReq.roomId}
            body == hResult.body
        IN  /\ Len(body) = Cardinality(rows)
            /\ \A i \in rows : \E j \in 1..Len(body) : body[j].id = store[i].id
            /\ \A j, k \in 1..Len(body) :
                  j < k => body[j].createdAt < body[k].createdAt
            /\ \A j \in 1..Len(body) : \E i \in rows :
                  /\ body[j].id = store[i].id
                  /\ body[j].createdAt = store[i].createdAt
                  /\ body[j].text = ExpectedText(store[i].text)

\* two rows of the room, stored out of createdAt order: one decrypts, the
\* other is a record under another secret and comes back as stored
C16_Witness ==
    /\ hResult.status = 200 /\ Len(hResult.body) = 2 /\ Len(store) = 2
    /\ store[1].createdAt > store[2].createdAt
    /\ envKey = "k1"
    /\ store[1].text = encrypt(<<"a">>, "k1", RandomBytes(1))
    /\ store[2].text = encrypt(<<"a">>, "k2", RandomBytes(1))
    /\ hResult.body[1].text = store[2].text
    /\ hResult.body[2].text = <<"a">>

(***************************************************************************)
(* Properties of repeated encrypt calls, of the catch block of encrypt and *)
(* of a change of configuration between writing and reading                *)
(***************************************************************************)

\* both encrypt calls ran the cipher to its end under a configured secret
TwoRecords ==
    /\ cKind = "again" /\ cKey # NoKey
    /\ cIvs[1] # CipherThrew /\ cIvs[2] # CipherThrew

\* C22, as claimed: two encrypt calls with the same text under the same
\* configured secret return different strings.
C22_AlwaysDifferent ==
    TwoRecords => cSerial2 # cSerial

\* C22: every encrypt call under a configured secret writes the 12 bytes that
\* its own randomBytes call returned into the first field of its record, and
\* two calls with the same text and secret return different strings exactly
\* when the two randomBytes calls returned different values.
C22_NonceFreshness ==
    TwoRecords =>
        /\ Len(cIvs[1]) = IvBytes /\ Len(cIvs[2]) = IvBytes
        /\ Split(cSerial)[1] = ToHex(cIvs[1])
        /\ Split(cSerial2)[1] = ToHex(cIvs[2])
        /\ (cSerial2 # cSerial) <=> (cIvs[2] # cIvs[1])

C22_Witness ==
    /\ TwoRecords
    /\ cKey = "k1" /\ cPlain = <<"a">>
    /\ cIvs = <<RandomBytes(1), RandomBytes(2)>>
    /\ cSerial2 # cSerial

\* a string of the characters the model writes texts and records with
IsString(S) ==
    \A i \in 1..Len(S) : S[i] \in Chars \cup Range(HexDigits)

\* C30: encrypt returns a string for every text, whatever the try block
\* does; when a call inside the try block raises an error under a configured
\* secret, encrypt returns the text it was given, unchanged, and so does a
\* second call; the text handed on for persisting is then that plaintext.
C30_EncryptNeverFails ==
    /\ (cPc = "ready" /\ cKind = "fresh") =>
          /\ IsString(cSerial)
          /\ (cIvs[1] = CipherThrew => cSerial = cPlain)
    /\ cKind = "again" =>
          /\ IsString(cSerial2)
          /\ (cIvs[2] = CipherThrew => cSerial2 = cPlain)
    /\ \A P \in Texts, k \in Keys : encrypt(P, k, CipherThrew) = P

C30_Witness ==
    /\ cPc = "ready" /\ cKind = "fresh"
    /\ cKey = "k1" /\ cIvs = <<CipherThrew>>
    /\ cPlain = <<"a", ":">> /\ cSerial = cPlain

\* the text was written while no secret was configured and is read under one
PlainThenKey ==
    cPc = "done" /\ cKind = "rekeyed" /\ cKey = NoKey /\ envKey # NoKey

\* the text was written as a record under a secret and is read without one
RecordThenNoKey ==
    /\ cPc = "done" /\ cKind = "rekeyed" /\ cKey # NoKey /\ envKey = NoKey
    /\ cIvs[1] # CipherThrew

\* the text has colons and its fields pass the cipher under the secret k
Authenticates(S, k) ==
    ":" \in Range(S) /\ ~Decipher(S, k, shortTagsOk).threw

C29_RecordAsText ==
    /\ PlainThenKey
    /\ envKey = "k2"
    /\ cPlain = encrypt(<<"a">>, "k2", RandomBytes(1))
    /\ cOut = <<"a">>

(***************************************************************************)
(* Properties of the page middleware, checked under PageSpec               *)
(***************************************************************************)
\* the request carried a token that verifyToken accepted when it was made
PageAuthenticated ==
    /\ pReq.cookie.hasToken /\ ~pReq.cookie.blank
    /\ verifyToken(pReq.cookie.token, pReq.at) # NoUser

\* C25: a page request without a token cookie, or with a token that fails
\* verification, for a path other than /login and /register is redirected
\* to /login; a request with a token for /login or /register is redirected
\* to /; a request under /api/auth passes through.
C25_PageProtection ==
    pRes # "none" =>
        /\ (Matched(pReq.path) /\ ~PageAuthenticated /\ ~isAuthPage(pReq.path)) =>
              pRes = "redirect:/login"
        /\ (pReq.cookie.hasToken /\ ~pReq.cookie.blank /\ isAuthPage(pReq.path)) =>
              pRes = "redirect:/"
        /\ isApiAuth(pReq.path) => pRes \in {"next", "unmatched"}

(***************************************************************************)
(* Properties of the rooms route, checked under RoomsSpec                  *)
(***************************************************************************)
\* C26: no two rows of the Room table have the same name, and the step that
\* finishes a create-room request whose trimmed name is in the table (the
\* database being reachable) answers 409 and leaves the table as it is,
\* whatever other requests are in flight.
C26_RoomNameUnique ==
    /\ [](\A k, l \in 1..Len(roomTable) :
             roomTable[k].name = roomTable[l].name => k = l)
    /\ [][\A i \in 1..Len(posts) :
            (/\ posts[i].pc # "done" /\ posts'[i].pc = "done"
             /\ posts'[i].err # "db"
             /\ FindRoom(Trim(posts[i].name)) # {}) =>
                (posts'[i].status = 409 /\ roomTable' = roomTable)
       ]_vars

====
